---- MODULE Spec2Model ----
(***************************************************************************)
(* Booking lifecycle and availability engine of the restaurant bookings    *)
(* manager (backend.py over pg_driver.py and the dataclass models).        *)
(*                                                                         *)
(* The relational store is the state: the rows of users, tables and        *)
(* bookings, the columns the bookings table was provisioned with, the      *)
(* SERIAL sequence of bookings.id and the database clock now().  Every     *)
(* backend function is one action; SQL NULL is the empty tuple and a       *)
(* non-null value x is <<x>> wherever a column of the code can hold NULL   *)
(* and the code compares it (three-valued logic is then explicit).         *)
(***************************************************************************)
EXTENDS Integers, FiniteSets, Sequences, TLC

\* ---------------------------------------------------------------- bounds
\* Timestamps a caller may pass as starts_at / ends_at: 0..MaxTime.
MaxTime == 2
\* Number of values the bookings.id sequence may hand out.
MaxBookings == 2
\* Number of writes the database clock is followed for.
MaxNow == 3
\* Number of values the users.id and the tables.id sequences may hand out.
MaxUsers == 2
MaxTables == 2

\* SQL NULL / Python None, and a non-null value.
NULL == << >>
Some(x) == << x >>

Times == 0 .. MaxTime
\* ids a caller may pass as user_id / table_id (the form takes any integer)
UserIds == {1, 2}
TableIds == {1, 2}
\* guest counts typed into the form when creating / when changing a booking
GuestCounts == {2}
NewGuestCounts == {2, 3}
\* 'pending' is the form's fallback and stands for every string other than
\* 'canceled', which is what cancel_booking writes; the column is nullable and
\* Booking.status is Optional, so a caller of the backend may pass None.
StatusStrings == {"pending", "canceled"}
Statuses == {Some(s) : s \in StatusStrings} \cup {NULL}
\* statuses of stored rows when the availability query is examined on its own:
\* 'Canceled' is a free-text status that differs from 'canceled' only in case
StoredStatuses == Statuses \cup {Some("Canceled")}
Reasons == {NULL, Some("no-show")}
\* what the users form and the tables form pass as email and as number
Emails == {"a@example.org", "b@example.org"}
TableNumbers == {1, 2}
Procs == {1, 2}

VARIABLES
    users,             \* ids of the rows of table users
    tables,            \* ids of the rows of table tables
    bookings,          \* rows of table bookings (a set of records)
    bookings_columns,  \* columns the bookings table was created with
    bookings_id_seq,   \* next value of the SERIAL sequence of bookings.id
    now,               \* database clock, read by now()
    last,              \* the last backend call and what the caller saw
    pc,                \* concurrent callers: position of each caller
    req,               \* concurrent callers: the call each one is executing
    users_email,       \* column email of each row of users
    tables_number,     \* column number of each row of tables
    users_id_seq,      \* next value of the SERIAL sequence of users.id
    tables_id_seq,     \* next value of the SERIAL sequence of tables.id
    conns,             \* connections that are open
    tx                 \* the connect()/transaction() block being executed

\* the columns and sequences of users and tables
entity_vars == << users_email, tables_number, users_id_seq, tables_id_seq >>
\* the state of the driver
driver_vars == << conns, tx >>

vars ==
    << users, tables, bookings, bookings_columns, bookings_id_seq, now, last, pc, req,
       entity_vars, driver_vars >>

\* ---------------------------------------------------------------- schema
\* Columns build_create_table_ddl derives from the fields of the Booking
\* dataclass (create_tables on a database without a bookings table).
BookingModelColumns ==
    {"id", "user_id", "table_id", "starts_at", "ends_at", "guest_count", "status",
     "contact_name", "contact_phone", "notes", "created_at", "updated_at"}

\* Columns of a bookings table that already existed when create_tables ran
\* (ensure_schema leaves an existing table alone): the persisted shape.
BookingPersistedColumns ==
    BookingModelColumns \cup {"canceled_at", "cancel_reason"}

\* ---------------------------------------------------------------- is_table_available
\* The WHERE clause of is_table_available on one row r.  A comparison with a
\* NULL status is not true, so the row is not selected.
ConflictsIgnoringStatus(r, table_id, starts_at, ends_at, booking_id_to_exclude) ==
    /\ r.table_id = table_id
    /\ ~ (r.ends_at <= starts_at \/ r.starts_at >= ends_at)
    /\ (booking_id_to_exclude # NULL => r.id # booking_id_to_exclude[1])

ConflictsClosedInterval(r, table_id, starts_at, ends_at, booking_id_to_exclude) ==
    /\ r.table_id = table_id
    /\ r.status # NULL /\ r.status[1] # "canceled"
    /\ ~ (r.ends_at < starts_at \/ r.starts_at > ends_at)
    /\ (booking_id_to_exclude # NULL => r.id # booking_id_to_exclude[1])

ConflictsSwappedParams(r, table_id, starts_at, ends_at, booking_id_to_exclude) ==
    /\ r.table_id = table_id
    /\ r.status # NULL /\ r.status[1] # "canceled"
    /\ ~ (r.ends_at <= ends_at \/ r.starts_at >= starts_at)
    /\ (booking_id_to_exclude # NULL => r.id # booking_id_to_exclude[1])

ConflictsNoExclude(r, table_id, starts_at, ends_at, booking_id_to_exclude) ==
    /\ r.table_id = table_id
    /\ r.status # NULL /\ r.status[1] # "canceled"
    /\ ~ (r.ends_at <= starts_at \/ r.starts_at >= ends_at)

ConflictsCaseInsensitive(r, table_id, starts_at, ends_at, booking_id_to_exclude) ==
    /\ r.table_id = table_id
    /\ r.status # NULL /\ r.status[1] \notin {"canceled", "Canceled"}
    /\ ~ (r.ends_at <= starts_at \/ r.starts_at >= ends_at)
    /\ (booking_id_to_exclude # NULL => r.id # booking_id_to_exclude[1])

Conflicts(r, table_id, starts_at, ends_at, booking_id_to_exclude) ==
    /\ r.table_id = table_id
    /\ r.status # NULL /\ r.status[1] # "canceled"
    /\ ~ (r.ends_at <= starts_at \/ r.starts_at >= ends_at)
    /\ (booking_id_to_exclude # NULL => r.id # booking_id_to_exclude[1])

\* fetchone returns no row exactly when no row satisfies the WHERE clause.
is_table_available(bks, table_id, starts_at, ends_at, booking_id_to_exclude) ==
    ~ \E r \in bks : Conflicts(r, table_id, starts_at, ends_at, booking_id_to_exclude)

\* ---------------------------------------------------------------- rows and statements
\* What a caller passes to create_booking (Booking.to_insert_params).
Requests ==
    [user_id : UserIds, table_id : TableIds, starts_at : Times, ends_at : Times,
     guest_count : GuestCounts, status : Statuses]

\* The row INSERT INTO bookings(...) stores: id from the sequence, created_at and
\* updated_at from DEFAULT now(), the columns the statement does not name NULL.
InsertedRow(b, id, ts) ==
    [id |-> id, user_id |-> b.user_id, table_id |-> b.table_id,
     starts_at |-> b.starts_at, ends_at |-> b.ends_at,
     guest_count |-> b.guest_count, status |-> b.status,
     updated_at |-> ts, canceled_at |-> NULL, cancel_reason |-> NULL]

\* FOREIGN KEY (user_id) REFERENCES users(id), (table_id) REFERENCES tables(id).
ForeignKeysHold(b) == b.user_id \in users /\ b.table_id \in tables

\* get_booking: SELECT * FROM bookings WHERE id=%s (the row, or none).
get_booking(bks, booking_id) == {r \in bks : r.id = booking_id}

\* The UPDATE of update_booking_times putting the booking back to pending too.
UpdateTimesRowsResettingStatus(bks, booking_id, starts_at, ends_at, guest_count, ts) ==
    { IF r.id = booking_id
        THEN [r EXCEPT !.starts_at = starts_at, !.ends_at = ends_at,
                       !.guest_count = guest_count, !.updated_at = ts,
                       !.status = Some("pending")]
        ELSE r : r \in bks }

\* UPDATE bookings SET starts_at, ends_at, guest_count, updated_at=now() WHERE id
UpdateTimesRows(bks, booking_id, starts_at, ends_at, guest_count, ts) ==
    { IF r.id = booking_id
        THEN [r EXCEPT !.starts_at = starts_at, !.ends_at = ends_at,
                       !.guest_count = guest_count, !.updated_at = ts]
        ELSE r : r \in bks }

\* UPDATE bookings SET status=%s, updated_at=now() WHERE id=%s
SetStatusRows(bks, booking_id, status, ts) ==
    { IF r.id = booking_id
        THEN [r EXCEPT !.status = status, !.updated_at = ts]
        ELSE r : r \in bks }

\* UPDATE bookings SET status='canceled', canceled_at=now(), cancel_reason=%s,
\* updated_at=now() WHERE id=%s
CancelRows(bks, booking_id, reason, ts) ==
    { IF r.id = booking_id
        THEN [r EXCEPT !.status = Some("canceled"), !.canceled_at = Some(ts),
                       !.cancel_reason = reason, !.updated_at = ts]
        ELSE r : r \in bks }

\* rowcount of an UPDATE ... WHERE id=%s
RowCount(bks, booking_id) == Cardinality(get_booking(bks, booking_id))

\* What the caller of a backend function passed and saw: the function, its
\* arguments (0 where it has none), how it ended ("ok", "ValueError" or
\* "StorageError"), what it returned, the addressed row as it was stored
\* before the call (the empty set when there was none), and the status and the
\* cancellation reason it was given (NULL where it takes none).
Call(op, booking_id, user_id, table_id, starts_at, ends_at, outcome, ret, before) ==
    [op |-> op, booking_id |-> booking_id, user_id |-> user_id, table_id |-> table_id,
     starts_at |-> starts_at, ends_at |-> ends_at, outcome |-> outcome, ret |-> ret,
     before |-> before, status |-> NULL, reason |-> NULL]

\* The same for a call that was given a status.
WithStatus(call, status) == [call EXCEPT !.status = status]

\* The same for a call that was given a cancellation reason.
WithReason(call, reason) == [call EXCEPT !.reason = reason]

NoCall == Call("none", 0, 0, 0, 0, 0, "ok", 0, {})

\* ---------------------------------------------------------------- initial state
\* No connect()/transaction() block is being executed.
NoTx == [state |-> "idle"]

\* The users and tables of the provisioned database: the emails and numbers of
\* the stored rows, the sequences past the stored ids, no connection open.
InitEntities ==
    /\ users_email = [u \in {1} |-> "a@example.org"]
    /\ tables_number = [t \in {1, 2} |-> t]
    /\ users_id_seq = 2
    /\ tables_id_seq = 3
    /\ conns = {}
    /\ tx = NoTx

\* A provisioned database with one user and two tables and no booking yet; the
\* bookings table either made by create_tables from the Booking model or
\* already there in its persisted shape.
Init ==
    /\ users = {1}
    /\ tables = {1, 2}
    /\ bookings = {}
    /\ bookings_columns \in {BookingModelColumns, BookingPersistedColumns}
    /\ bookings_id_seq = 1
    /\ now = 1
    /\ last = NoCall
    /\ pc = [p \in Procs |-> "idle"]
    /\ req = [p \in Procs |-> [op |-> "none"]]
    /\ InitEntities

\* ---------------------------------------------------------------- backend calls, one at a time
\* create_booking without its availability check.
create_booking_unchecked(b) ==
    /\ bookings_id_seq <= MaxBookings
    /\ now <= MaxNow
    /\ UNCHANGED << users, tables, bookings_columns, pc, req >>
    /\ UNCHANGED << entity_vars, driver_vars >>
    /\ IF ~ ForeignKeysHold(b)
         THEN /\ last' = Call("create_booking", 0, b.user_id, b.table_id, b.starts_at, b.ends_at,
                              "StorageError", 0, {})
              /\ bookings_id_seq' = bookings_id_seq + 1
              /\ UNCHANGED << bookings, now >>
         ELSE /\ bookings' = bookings \cup {InsertedRow(b, bookings_id_seq, now)}
              /\ bookings_id_seq' = bookings_id_seq + 1
              /\ now' = now + 1
              /\ last' = Call("create_booking", bookings_id_seq, b.user_id, b.table_id,
                              b.starts_at, b.ends_at, "ok", bookings_id_seq, {})

create_booking(b) ==
    /\ bookings_id_seq <= MaxBookings
    /\ now <= MaxNow
    /\ UNCHANGED << users, tables, bookings_columns, pc, req >>
    /\ UNCHANGED << entity_vars, driver_vars >>
    /\ IF ~ is_table_available(bookings, b.table_id, b.starts_at, b.ends_at, NULL)
         THEN \* raise ValueError before any statement that writes
              /\ last' = Call("create_booking", 0, b.user_id, b.table_id, b.starts_at, b.ends_at,
                              "ValueError", 0, {})
              /\ UNCHANGED << bookings, bookings_id_seq, now >>
         ELSE IF ~ ForeignKeysHold(b)
         THEN \* the INSERT fails, the transaction rolls back; nextval is not undone
              /\ last' = Call("create_booking", 0, b.user_id, b.table_id, b.starts_at, b.ends_at,
                              "StorageError", 0, {})
              /\ bookings_id_seq' = bookings_id_seq + 1
              /\ UNCHANGED << bookings, now >>
         ELSE /\ bookings' = bookings \cup {InsertedRow(b, bookings_id_seq, now)}
              /\ bookings_id_seq' = bookings_id_seq + 1
              /\ now' = now + 1
              /\ last' = Call("create_booking", bookings_id_seq, b.user_id, b.table_id,
                              b.starts_at, b.ends_at, "ok", bookings_id_seq, {})

\* update_booking_times without the early return for a booking that is not
\* stored: the availability check is made for the table of a booking that does
\* not exist and the call fails.
update_booking_times_no_lookup(booking_id, starts_at, ends_at, guest_count) ==
    /\ now <= MaxNow
    /\ UNCHANGED << users, tables, bookings_columns, bookings_id_seq, pc, req >>
    /\ UNCHANGED << entity_vars, driver_vars >>
    /\ LET bk == get_booking(bookings, booking_id) IN
       IF bk = {}
         THEN /\ last' = Call("update_booking_times", booking_id, 0, 0, starts_at, ends_at,
                              "StorageError", 0, {})
              /\ UNCHANGED << bookings, now >>
         ELSE LET table_id == (CHOOSE r \in bk : TRUE).table_id IN
              IF ~ is_table_available(bookings, table_id, starts_at, ends_at, Some(booking_id))
                THEN /\ last' = Call("update_booking_times", booking_id, 0, table_id, starts_at,
                                     ends_at, "ValueError", 0, bk)
                     /\ UNCHANGED << bookings, now >>
                ELSE /\ bookings' = UpdateTimesRows(bookings, booking_id, starts_at, ends_at,
                                                    guest_count, now)
                     /\ now' = now + 1
                     /\ last' = Call("update_booking_times", booking_id, 0, table_id, starts_at,
                                     ends_at, "ok", RowCount(bookings, booking_id), bk)

update_booking_times(booking_id, starts_at, ends_at, guest_count) ==
    /\ now <= MaxNow
    /\ UNCHANGED << users, tables, bookings_columns, bookings_id_seq, pc, req >>
    /\ UNCHANGED << entity_vars, driver_vars >>
    /\ LET bk == get_booking(bookings, booking_id) IN
       IF bk = {}
         THEN /\ last' = Call("update_booking_times", booking_id, 0, 0, starts_at, ends_at,
                              "ok", 0, {})
              /\ UNCHANGED << bookings, now >>
         ELSE LET table_id == (CHOOSE r \in bk : TRUE).table_id IN
              IF ~ is_table_available(bookings, table_id, starts_at, ends_at, Some(booking_id))
                THEN /\ last' = Call("update_booking_times", booking_id, 0, table_id, starts_at,
                                     ends_at, "ValueError", 0, bk)
                     /\ UNCHANGED << bookings, now >>
                ELSE /\ bookings' = UpdateTimesRows(bookings, booking_id, starts_at, ends_at,
                                                    guest_count, now)
                     /\ now' = now + 1
                     /\ last' = Call("update_booking_times", booking_id, 0, table_id, starts_at,
                                     ends_at, "ok", RowCount(bookings, booking_id), bk)

\* set_booking_status running the availability check of update_booking_times
\* before it makes a booking active.
set_booking_status_checked(booking_id, status) ==
    /\ now <= MaxNow
    /\ UNCHANGED << users, tables, bookings_columns, bookings_id_seq, pc, req >>
    /\ UNCHANGED << entity_vars, driver_vars >>
    /\ IF /\ status # Some("canceled")
          /\ \E r \in get_booking(bookings, booking_id) :
                 ~ is_table_available(bookings, r.table_id, r.starts_at, r.ends_at, Some(r.id))
         THEN /\ last' = WithStatus(Call("set_booking_status", booking_id, 0, 0, 0, 0,
                                         "ValueError", 0, get_booking(bookings, booking_id)),
                                    status)
              /\ UNCHANGED << bookings, now >>
         ELSE /\ bookings' = SetStatusRows(bookings, booking_id, status, now)
              /\ now' = IF RowCount(bookings, booking_id) > 0 THEN now + 1 ELSE now
              /\ last' = WithStatus(Call("set_booking_status", booking_id, 0, 0, 0, 0, "ok",
                                         RowCount(bookings, booking_id),
                                         get_booking(bookings, booking_id)),
                                    status)

set_booking_status(booking_id, status) ==
    /\ now <= MaxNow
    /\ UNCHANGED << users, tables, bookings_columns, bookings_id_seq, pc, req >>
    /\ UNCHANGED << entity_vars, driver_vars >>
    /\ bookings' = SetStatusRows(bookings, booking_id, status, now)
    /\ now' = IF RowCount(bookings, booking_id) > 0 THEN now + 1 ELSE now
    /\ last' = WithStatus(Call("set_booking_status", booking_id, 0, 0, 0, 0, "ok",
                               RowCount(bookings, booking_id),
                               get_booking(bookings, booking_id)),
                          status)

cancel_booking(booking_id, reason) ==
    /\ now <= MaxNow
    /\ UNCHANGED << users, tables, bookings_columns, bookings_id_seq, pc, req >>
    /\ UNCHANGED << entity_vars, driver_vars >>
    /\ IF ~ ({"status", "canceled_at", "cancel_reason", "updated_at", "id"}
                \subseteq bookings_columns)
         THEN \* the UPDATE names a column the table does not have: the statement
              \* fails, the transaction rolls back and the error propagates
              /\ last' = WithReason(Call("cancel_booking", booking_id, 0, 0, 0, 0,
                                         "StorageError", 0,
                                         get_booking(bookings, booking_id)),
                                    reason)
              /\ UNCHANGED << bookings, now >>
         ELSE /\ bookings' = CancelRows(bookings, booking_id, reason, now)
              /\ now' = IF RowCount(bookings, booking_id) > 0 THEN now + 1 ELSE now
              /\ last' = WithReason(Call("cancel_booking", booking_id, 0, 0, 0, 0, "ok",
                                         RowCount(bookings, booking_id),
                                         get_booking(bookings, booking_id)),
                                    reason)

\* ids a caller may pass as booking_id: those the sequence can hand out
BookingIds == 1 .. MaxBookings

Next ==
    \/ \E b \in Requests : create_booking(b)
    \/ \E id \in BookingIds, s \in Times, e \in Times, g \in NewGuestCounts :
           update_booking_times(id, s, e, g)
    \/ \E id \in BookingIds, st \in Statuses : set_booking_status(id, st)
    \/ \E id \in BookingIds, rs \in Reasons : cancel_booking(id, rs)

Spec == Init /\ [][Next]_vars

\* ---------------------------------------------------------------- backend calls, interleaved
\* Two callers (two application processes on one database).  Every db.connect()
\* and db.transaction() block of a backend function is a connection of its own,
\* so each block is one step and the steps of the two callers interleave.
\* The callers book well-formed windows for the stored user with the form's
\* default status, so every booking they store is an active one.
ConcRequests ==
    {b \in Requests : b.user_id = 1 /\ b.status = Some("pending") /\ b.starts_at < b.ends_at}

ConcWindows == {w \in Times \X Times : w[1] < w[2]}

\* No call in progress.
NoPending == [op |-> "none"]

Pending(op, booking_id, b) ==
    [op |-> op, booking_id |-> booking_id, user_id |-> b.user_id, table_id |-> b.table_id,
     starts_at |-> b.starts_at, ends_at |-> b.ends_at, guest_count |-> b.guest_count,
     status |-> b.status]

\* create_booking, first block: is_table_available under db.connect()
conc_create_check(p, b) ==
    /\ pc[p] = "idle"
    /\ bookings_id_seq <= MaxBookings
    /\ now <= MaxNow
    /\ UNCHANGED << users, tables, bookings, bookings_columns, bookings_id_seq, now >>
    /\ UNCHANGED << entity_vars, driver_vars >>
    /\ IF ~ is_table_available(bookings, b.table_id, b.starts_at, b.ends_at, NULL)
         THEN /\ last' = Call("create_booking", 0, b.user_id, b.table_id, b.starts_at, b.ends_at,
                              "ValueError", 0, {})
              /\ UNCHANGED << pc, req >>
         ELSE /\ pc' = [pc EXCEPT ![p] = "create_write"]
              /\ req' = [req EXCEPT ![p] = Pending("create_booking", 0, b)]
              /\ UNCHANGED last

\* The INSERT of create_booking re-running the availability query in its own
\* transaction (what a check-and-write in one transaction would do).
conc_create_write_rechecked(p) ==
    /\ pc[p] = "create_write"
    /\ pc' = [pc EXCEPT ![p] = "idle"]
    /\ req' = [req EXCEPT ![p] = NoPending]
    /\ UNCHANGED << users, tables, bookings_columns >>
    /\ UNCHANGED << entity_vars, driver_vars >>
    /\ LET b == req[p] IN
       IF ~ is_table_available(bookings, b.table_id, b.starts_at, b.ends_at, NULL)
            \/ ~ ForeignKeysHold(b)
         THEN /\ last' = Call("create_booking", 0, b.user_id, b.table_id, b.starts_at, b.ends_at,
                              "StorageError", 0, {})
              /\ UNCHANGED << bookings, bookings_id_seq, now >>
         ELSE /\ bookings' = bookings \cup {InsertedRow(b, bookings_id_seq, now)}
              /\ bookings_id_seq' = bookings_id_seq + 1
              /\ now' = now + 1
              /\ last' = Call("create_booking", bookings_id_seq, b.user_id, b.table_id,
                              b.starts_at, b.ends_at, "ok", bookings_id_seq, {})

\* create_booking, second block: the INSERT under db.transaction()
conc_create_write(p) ==
    /\ pc[p] = "create_write"
    /\ pc' = [pc EXCEPT ![p] = "idle"]
    /\ req' = [req EXCEPT ![p] = NoPending]
    /\ UNCHANGED << users, tables, bookings_columns >>
    /\ UNCHANGED << entity_vars, driver_vars >>
    /\ LET b == req[p] IN
       IF ~ ForeignKeysHold(b)
         THEN /\ last' = Call("create_booking", 0, b.user_id, b.table_id, b.starts_at, b.ends_at,
                              "StorageError", 0, {})
              /\ bookings_id_seq' = bookings_id_seq + 1
              /\ UNCHANGED << bookings, now >>
         ELSE /\ bookings' = bookings \cup {InsertedRow(b, bookings_id_seq, now)}
              /\ bookings_id_seq' = bookings_id_seq + 1
              /\ now' = now + 1
              /\ last' = Call("create_booking", bookings_id_seq, b.user_id, b.table_id,
                              b.starts_at, b.ends_at, "ok", bookings_id_seq, {})

\* update_booking_times, first block: get_booking under db.connect()
conc_update_lookup(p, booking_id, starts_at, ends_at, guest_count) ==
    /\ pc[p] = "idle"
    /\ now <= MaxNow
    /\ UNCHANGED << users, tables, bookings, bookings_columns, bookings_id_seq, now >>
    /\ UNCHANGED << entity_vars, driver_vars >>
    /\ LET bk == get_booking(bookings, booking_id) IN
       IF bk = {}
         THEN /\ last' = Call("update_booking_times", booking_id, 0, 0, starts_at, ends_at,
                              "ok", 0, {})
              /\ UNCHANGED << pc, req >>
         ELSE /\ pc' = [pc EXCEPT ![p] = "update_check"]
              /\ req' = [req EXCEPT ![p] =
                           Pending("update_booking_times", booking_id,
                                   [user_id |-> 0, table_id |-> (CHOOSE r \in bk : TRUE).table_id,
                                    starts_at |-> starts_at, ends_at |-> ends_at,
                                    guest_count |-> guest_count, status |-> NULL])]
              /\ UNCHANGED last

\* update_booking_times, second block: is_table_available under db.connect()
conc_update_check(p) ==
    /\ pc[p] = "update_check"
    /\ UNCHANGED << users, tables, bookings, bookings_columns, bookings_id_seq, now >>
    /\ UNCHANGED << entity_vars, driver_vars >>
    /\ LET u == req[p] IN
       IF ~ is_table_available(bookings, u.table_id, u.starts_at, u.ends_at, Some(u.booking_id))
         THEN /\ last' = Call("update_booking_times", u.booking_id, 0, u.table_id, u.starts_at,
                              u.ends_at, "ValueError", 0, get_booking(bookings, u.booking_id))
              /\ pc' = [pc EXCEPT ![p] = "idle"]
              /\ req' = [req EXCEPT ![p] = NoPending]
         ELSE /\ pc' = [pc EXCEPT ![p] = "update_write"]
              /\ UNCHANGED << last, req >>

\* update_booking_times, third block: the UPDATE under db.transaction()
conc_update_write(p) ==
    /\ pc[p] = "update_write"
    /\ pc' = [pc EXCEPT ![p] = "idle"]
    /\ req' = [req EXCEPT ![p] = NoPending]
    /\ UNCHANGED << users, tables, bookings_columns, bookings_id_seq >>
    /\ UNCHANGED << entity_vars, driver_vars >>
    /\ LET u == req[p] IN
       /\ bookings' = UpdateTimesRows(bookings, u.booking_id, u.starts_at, u.ends_at,
                                      u.guest_count, now)
       /\ now' = IF RowCount(bookings, u.booking_id) > 0 THEN now + 1 ELSE now
       /\ last' = Call("update_booking_times", u.booking_id, 0, u.table_id, u.starts_at,
                       u.ends_at, "ok", RowCount(bookings, u.booking_id),
                       get_booking(bookings, u.booking_id))

NextConc ==
    \/ \E p \in Procs, b \in ConcRequests : conc_create_check(p, b)
    \/ \E p \in Procs : conc_create_write(p)
    \/ \E p \in Procs, id \in BookingIds, w \in ConcWindows, g \in GuestCounts :
           conc_update_lookup(p, id, w[1], w[2], g)
    \/ \E p \in Procs : conc_update_check(p)
    \/ \E p \in Procs : conc_update_write(p)

SpecConc == Init /\ [][NextConc]_vars

\* ---------------------------------------------------------------- the availability query on its own
\* Stored bookings drawn from every combination of table, window and status
\* that create_booking and set_booking_status can leave in the table, and
\* is_table_available called on them with every argument.
StoredRow(id, table_id, starts_at, ends_at, status) ==
    InsertedRow([user_id |-> 1, table_id |-> table_id, starts_at |-> starts_at,
                 ends_at |-> ends_at, guest_count |-> 2, status |-> status], id, id)

StoredRows(id) ==
    {StoredRow(id, t, s, e, st) : t \in TableIds, s \in Times, e \in Times, st \in StoredStatuses}

StoredSets ==
    {{}} \cup {{r1} : r1 \in StoredRows(1)}
         \cup {{r1, r2} : r1 \in StoredRows(1), r2 \in StoredRows(2)}

InitAvail ==
    /\ users = {1}
    /\ tables = {1, 2}
    /\ bookings \in StoredSets
    /\ bookings_columns = BookingPersistedColumns
    /\ bookings_id_seq = Cardinality(bookings) + 1
    /\ now = Cardinality(bookings) + 1
    /\ last = NoCall
    /\ pc = [p \in Procs |-> "idle"]
    /\ req = [p \in Procs |-> [op |-> "none"]]
    /\ InitEntities

\* A call of is_table_available by itself: it reads and changes nothing
\* (one call is examined on each stored set).
is_table_available_call(table_id, starts_at, ends_at, booking_id_to_exclude) ==
    /\ last.op = "none"
    /\ last' = Call("is_table_available", booking_id_to_exclude, 0, table_id, starts_at,
                    ends_at, "ok",
                    is_table_available(bookings, table_id, starts_at, ends_at,
                                       booking_id_to_exclude),
                    {})
    /\ UNCHANGED << users, tables, bookings, bookings_columns, bookings_id_seq, now, pc, req >>
    /\ UNCHANGED << entity_vars, driver_vars >>

Exclusions == {NULL} \cup {Some(id) : id \in BookingIds}

NextAvail ==
    \E t \in TableIds, s \in Times, e \in Times, x \in Exclusions :
        is_table_available_call(t, s, e, x)

SpecAvail == InitAvail /\ [][NextAvail]_vars

\* ---------------------------------------------------------------- users and tables
\* rowcount of a statement ... WHERE id=%s on users or on tables
RowCountIn(ids, id) == IF id \in ids THEN 1 ELSE 0

\* f without the entry for id
Without(f, id) == [x \in (DOMAIN f) \ {id} |-> f[x]]

\* INSERT INTO users(email, full_name, phone): the table has no constraint but
\* the primary key, so the row is stored whatever its email.
create_user(email) ==
    /\ users_id_seq <= MaxUsers
    /\ users' = users \cup {users_id_seq}
    /\ users_email' = [u \in users \cup {users_id_seq} |->
                          IF u = users_id_seq THEN email ELSE users_email[u]]
    /\ users_id_seq' = users_id_seq + 1
    /\ last' = Call("create_user", 0, users_id_seq, 0, 0, 0, "ok", users_id_seq, {})
    /\ UNCHANGED << tables, bookings, bookings_columns, bookings_id_seq, now, pc, req >>
    /\ UNCHANGED << tables_number, tables_id_seq, driver_vars >>

\* UPDATE users SET email=%s, ... WHERE id=%s
update_user(id, email) ==
    /\ users_email' = [u \in users |-> IF u = id THEN email ELSE users_email[u]]
    /\ last' = Call("update_user", 0, id, 0, 0, 0, "ok", RowCountIn(users, id), {})
    /\ UNCHANGED << users, tables, bookings, bookings_columns, bookings_id_seq, now, pc, req >>
    /\ UNCHANGED << tables_number, users_id_seq, tables_id_seq, driver_vars >>

\* DELETE FROM users WHERE id=%s that leaves the bookings of the user alone.
delete_user_no_cascade(user_id) ==
    /\ users' = users \ {user_id}
    /\ users_email' = Without(users_email, user_id)
    /\ last' = Call("delete_user", 0, user_id, 0, 0, 0, "ok", RowCountIn(users, user_id),
                    {r \in bookings : r.user_id = user_id})
    /\ UNCHANGED << tables, bookings, bookings_columns, bookings_id_seq, now, pc, req >>
    /\ UNCHANGED << tables_number, users_id_seq, tables_id_seq, driver_vars >>

\* DELETE FROM users WHERE id=%s; bookings.user_id is ON DELETE CASCADE, so the
\* bookings of the user go with it.
delete_user(user_id) ==
    /\ users' = users \ {user_id}
    /\ users_email' = Without(users_email, user_id)
    /\ bookings' = {r \in bookings : r.user_id \notin users \ users'}
    /\ last' = Call("delete_user", 0, user_id, 0, 0, 0, "ok", RowCountIn(users, user_id),
                    {r \in bookings : r.user_id = user_id})
    /\ UNCHANGED << tables, bookings_columns, bookings_id_seq, now, pc, req >>
    /\ UNCHANGED << tables_number, users_id_seq, tables_id_seq, driver_vars >>

\* INSERT INTO tables(number, capacity, zone, status, notes)
create_table_rec(number) ==
    /\ tables_id_seq <= MaxTables
    /\ tables' = tables \cup {tables_id_seq}
    /\ tables_number' = [t \in tables \cup {tables_id_seq} |->
                            IF t = tables_id_seq THEN number ELSE tables_number[t]]
    /\ tables_id_seq' = tables_id_seq + 1
    /\ last' = Call("create_table_rec", 0, 0, tables_id_seq, 0, 0, "ok", tables_id_seq, {})
    /\ UNCHANGED << users, bookings, bookings_columns, bookings_id_seq, now, pc, req >>
    /\ UNCHANGED << users_email, users_id_seq, driver_vars >>

\* UPDATE tables SET number=%s, ... WHERE id=%s
update_table_rec(id, number) ==
    /\ tables_number' = [t \in tables |-> IF t = id THEN number ELSE tables_number[t]]
    /\ last' = Call("update_table_rec", 0, 0, id, 0, 0, "ok", RowCountIn(tables, id), {})
    /\ UNCHANGED << users, tables, bookings, bookings_columns, bookings_id_seq, now, pc, req >>
    /\ UNCHANGED << users_email, users_id_seq, tables_id_seq, driver_vars >>

\* DELETE FROM tables WHERE id=%s without the foreign key of bookings.table_id.
delete_table_unrestricted(table_id) ==
    /\ tables' = tables \ {table_id}
    /\ tables_number' = Without(tables_number, table_id)
    /\ last' = Call("delete_table", 0, 0, table_id, 0, 0, "ok", RowCountIn(tables, table_id), {})
    /\ UNCHANGED << users, bookings, bookings_columns, bookings_id_seq, now, pc, req >>
    /\ UNCHANGED << users_email, users_id_seq, tables_id_seq, driver_vars >>

\* DELETE FROM tables WHERE id=%s; bookings.table_id is ON DELETE RESTRICT, so
\* the statement fails while any booking references the table.
delete_table(table_id) ==
    /\ UNCHANGED << users, bookings, bookings_columns, bookings_id_seq, now, pc, req >>
    /\ UNCHANGED << users_email, users_id_seq, tables_id_seq, driver_vars >>
    /\ IF table_id \in tables /\ \E r \in bookings : r.table_id = table_id
         THEN /\ last' = Call("delete_table", 0, 0, table_id, 0, 0, "StorageError", 0, {})
              /\ UNCHANGED << tables, tables_number >>
         ELSE /\ tables' = tables \ {table_id}
              /\ tables_number' = Without(tables_number, table_id)
              /\ last' = Call("delete_table", 0, 0, table_id, 0, 0, "ok",
                              RowCountIn(tables, table_id), {})

\* ids a caller may pass to the users and the tables operations
AnyUserIds == 1 .. MaxUsers
AnyTableIds == 1 .. MaxTables

\* Bookings made next to the users and tables operations: one window, for any
\* user and table id, active or canceled.
StoreRequests ==
    {b \in Requests : b.starts_at = 0 /\ b.ends_at = 1 /\ b.status # NULL}

NextStore ==
    \/ \E em \in Emails : create_user(em)
    \/ \E id \in AnyUserIds, em \in Emails : update_user(id, em)
    \/ \E id \in AnyUserIds : delete_user(id)
    \/ \E n \in TableNumbers : create_table_rec(n)
    \/ \E id \in AnyTableIds, n \in TableNumbers : update_table_rec(id, n)
    \/ \E id \in AnyTableIds : delete_table(id)
    \/ \E b \in StoreRequests : create_booking(b)
    \/ \E id \in BookingIds, g \in GuestCounts : update_booking_times(id, 1, 2, g)
    \/ \E id \in BookingIds : set_booking_status(id, Some("pending"))
    \/ \E id \in BookingIds : cancel_booking(id, NULL)

\* A provisioned database with one user and one table and no booking yet.
InitStore ==
    /\ users = {1}
    /\ tables = {1}
    /\ bookings = {}
    /\ bookings_columns \in {BookingModelColumns, BookingPersistedColumns}
    /\ bookings_id_seq = 1
    /\ now = 1
    /\ last = NoCall
    /\ pc = [p \in Procs |-> "idle"]
    /\ req = [p \in Procs |-> [op |-> "none"]]
    /\ users_email = [u \in {1} |-> "a@example.org"]
    /\ tables_number = [t \in {1} |-> 1]
    /\ users_id_seq = 2
    /\ tables_id_seq = 2
    /\ conns = {}
    /\ tx = NoTx

SpecStore == InitStore /\ [][NextStore]_vars

\* ---------------------------------------------------------------- provisioning
\* Columns build_create_table_ddl derives from the User and the Table dataclass.
UserModelColumns == {"id", "email", "full_name", "phone", "created_at", "updated_at"}

TableModelColumns ==
    {"id", "number", "capacity", "zone", "status", "notes", "created_at", "updated_at"}

\* The bookings table does not exist.
NoTable == {}

\* The columns the statement(s) of each backend function name.
StatementColumns(op) ==
    CASE op = "create_user" -> {"email", "full_name", "phone", "id"}
      [] op = "get_user_by_id" -> {"id"}
      [] op = "update_user" -> {"email", "full_name", "phone", "updated_at", "id"}
      [] op = "delete_user" -> {"id"}
      [] op = "create_table_rec" -> {"number", "capacity", "zone", "status", "notes", "id"}
      [] op = "get_table" -> {"id"}
      [] op = "update_table_rec" ->
             {"number", "capacity", "zone", "status", "notes", "updated_at", "id"}
      [] op = "delete_table" -> {"id"}
      [] op = "is_table_available" -> {"table_id", "status", "ends_at", "starts_at", "id"}
      [] op = "create_booking" ->
             {"user_id", "table_id", "starts_at", "ends_at", "guest_count", "status",
              "contact_name", "contact_phone", "notes", "id"}
      [] op = "get_booking" -> {"id"}
      [] op = "update_booking_times" ->
             {"starts_at", "ends_at", "guest_count", "updated_at", "id"}
      [] op = "set_booking_status" -> {"status", "updated_at", "id"}
      [] op = "cancel_booking" ->
             {"status", "canceled_at", "cancel_reason", "updated_at", "id"}

UserStatements == {"create_user", "get_user_by_id", "update_user", "delete_user"}
TableStatements == {"create_table_rec", "get_table", "update_table_rec", "delete_table"}
BookingStatements ==
    {"is_table_available", "create_booking", "get_booking", "update_booking_times",
     "set_booking_status", "cancel_booking"}

\* create_tables: ensure_schema builds, from its model, each table that does not
\* exist and leaves an existing table as it is.
create_tables ==
    /\ bookings_columns' =
           IF bookings_columns = NoTable THEN BookingModelColumns ELSE bookings_columns
    /\ last' = Call("create_tables", 0, 0, 0, 0, 0, "ok", 0, {})
    /\ UNCHANGED << users, tables, bookings, bookings_id_seq, now, pc, req >>
    /\ UNCHANGED << entity_vars, driver_vars >>

\* A database without rows, either empty or holding the three tables in their
\* persisted shape already, before the application starts.
InitProvision ==
    /\ users = {}
    /\ tables = {}
    /\ bookings = {}
    /\ bookings_columns \in {NoTable, BookingPersistedColumns}
    /\ bookings_id_seq = 1
    /\ now = 1
    /\ last = NoCall
    /\ pc = [p \in Procs |-> "idle"]
    /\ req = [p \in Procs |-> [op |-> "none"]]
    /\ users_email = << >>
    /\ tables_number = << >>
    /\ users_id_seq = 1
    /\ tables_id_seq = 1
    /\ conns = {}
    /\ tx = NoTx

\* The application calls create_tables when it starts and the backend
\* functions from its forms afterwards.
NextProvision ==
    \/ last.op = "none" /\ create_tables
    \/ last.op # "none" /\ \E em \in Emails : create_user(em)
    \/ last.op # "none" /\ \E n \in TableNumbers : create_table_rec(n)
    \/ last.op # "none" /\ \E b \in StoreRequests : create_booking(b)
    \/ last.op # "none" /\ \E id \in BookingIds, st \in Statuses : set_booking_status(id, st)
    \/ last.op # "none" /\ \E id \in BookingIds, rs \in Reasons : cancel_booking(id, rs)

SpecProvision == InitProvision /\ [][NextProvision]_vars

\* ---------------------------------------------------------------- the driver, block by block
\* PGDriver.connect and PGDriver.transaction followed statement by statement
\* for one caller: _connect, the body of the with block, commit, rollback and
\* close are steps of their own, and each of _connect, the statement and commit
\* may fail at the storage layer.  bookings holds the committed rows; the rows
\* as the open transaction sees them are tx.pending.
MaxConns == 2
ConnIds == 1 .. MaxConns

\* The arguments of the backend call being executed.
DrvArgs(b, booking_id, status, reason) ==
    [b |-> b, booking_id |-> booking_id, status |-> status, reason |-> reason]

NoRequest ==
    [user_id |-> 0, table_id |-> 0, starts_at |-> 0, ends_at |-> 0, guest_count |-> 0,
     status |-> NULL]

\* A block of the driver in execution: where it is (state), which context
\* manager it is (kind), the backend function and its arguments, the connection
\* it opened, the rows as the transaction sees them, whether an exception is
\* propagating, the committed rows when the backend function was called, and
\* the value the body computed.
DrvTx(state, kind, op, a, conn, pending, exc, before, ret) ==
    [state |-> state, kind |-> kind, op |-> op, a |-> a, conn |-> conn,
     pending |-> pending, exc |-> exc, before |-> before, ret |-> ret]

\* What the caller of the backend function sees when it ends.
DrvCall(t, outcome, ret) ==
    WithStatus(Call(t.op, t.a.booking_id, t.a.b.user_id, t.a.b.table_id, t.a.b.starts_at,
                    t.a.b.ends_at, outcome, ret, get_booking(t.before, t.a.booking_id)),
               t.a.status)

\* The first block of each backend function: create_booking starts with the
\* connect() block of is_table_available, the others with their transaction().
FirstKind(op) == IF op = "create_booking" THEN "connect" ELSE "transaction"

\* conn = self._connect(), before the try: when it fails nothing was opened and
\* the error goes to the caller.
drv_begin(op, a) ==
    /\ tx.state = "idle"
    /\ now <= MaxNow
    /\ op = "create_booking" => bookings_id_seq <= MaxBookings
    /\ UNCHANGED << users, tables, bookings, bookings_columns, bookings_id_seq, now, pc, req >>
    /\ UNCHANGED entity_vars
    /\ \/ /\ UNCHANGED << conns, tx >>
          /\ last' = DrvCall(DrvTx("idle", FirstKind(op), op, a, 0, bookings, TRUE,
                                   bookings, 0), "StorageError", 0)
       \/ \E c \in ConnIds \ conns :
             /\ conns' = conns \cup {c}
             /\ tx' = DrvTx("body", FirstKind(op), op, a, c, bookings, FALSE, bookings, 0)
             /\ UNCHANGED last

\* The transaction() block of create_booking, entered after its connect() block
\* was left with the table available.
drv_begin_transaction ==
    /\ tx.state = "opening"
    /\ UNCHANGED << users, tables, bookings, bookings_columns, bookings_id_seq, now, pc, req >>
    /\ UNCHANGED entity_vars
    /\ \/ /\ UNCHANGED conns
          /\ tx' = NoTx
          /\ last' = DrvCall(tx, "StorageError", 0)
       \/ \E c \in ConnIds \ conns :
             /\ conns' = conns \cup {c}
             /\ tx' = [tx EXCEPT !.state = "body", !.kind = "transaction", !.conn = c,
                                 !.pending = bookings]
             /\ UNCHANGED last

\* The body of a connect() block: the availability query (autocommit).
drv_query ==
    /\ tx.state = "body" /\ tx.kind = "connect"
    /\ UNCHANGED << users, tables, bookings, bookings_columns, bookings_id_seq, now, pc, req >>
    /\ UNCHANGED << entity_vars, conns, last >>
    /\ \/ tx' = [tx EXCEPT !.state = "finally", !.exc = TRUE]
       \/ tx' = [tx EXCEPT !.state = "finally",
                           !.ret = IF is_table_available(bookings, tx.a.b.table_id,
                                                         tx.a.b.starts_at, tx.a.b.ends_at,
                                                         NULL)
                                     THEN 1 ELSE 0]

\* The body of a transaction() block: the INSERT or UPDATE of the backend
\* function, on the rows as the transaction sees them.  nextval is taken by the
\* INSERT whether or not the row passes the foreign keys.
drv_statement ==
    /\ tx.state = "body" /\ tx.kind = "transaction"
    /\ UNCHANGED << users, tables, bookings, bookings_columns, pc, req >>
    /\ UNCHANGED << entity_vars, conns, last >>
    /\ bookings_id_seq' =
           IF tx.op = "create_booking" THEN bookings_id_seq + 1 ELSE bookings_id_seq
    /\ LET fails ==
               \/ tx.op = "create_booking" /\ ~ ForeignKeysHold(tx.a.b)
               \/ tx.op = "cancel_booking"
                     /\ ~ ({"status", "canceled_at", "cancel_reason", "updated_at", "id"}
                              \subseteq bookings_columns)
           rows ==
               CASE tx.op = "create_booking" ->
                        tx.pending \cup {InsertedRow(tx.a.b, bookings_id_seq, now)}
                 [] tx.op = "set_booking_status" ->
                        SetStatusRows(tx.pending, tx.a.booking_id, tx.a.status, now)
                 [] tx.op = "cancel_booking" ->
                        CancelRows(tx.pending, tx.a.booking_id, tx.a.reason, now)
           ret ==
               IF tx.op = "create_booking" THEN bookings_id_seq
               ELSE RowCount(tx.pending, tx.a.booking_id)
       IN  IF fails
             THEN /\ tx' = [tx EXCEPT !.state = "except", !.exc = TRUE]
                  /\ UNCHANGED now
             ELSE /\ tx' = [tx EXCEPT !.state = "commit", !.pending = rows, !.ret = ret]
                  /\ now' = IF rows # tx.pending THEN now + 1 ELSE now

\* conn.commit() after the body: the rows the transaction wrote become the
\* committed rows, or the commit fails and raises.
drv_commit ==
    /\ tx.state = "commit"
    /\ UNCHANGED << users, tables, bookings_columns, bookings_id_seq, now, pc, req >>
    /\ UNCHANGED << entity_vars, conns, last >>
    /\ \/ /\ bookings' = tx.pending
          /\ tx' = [tx EXCEPT !.state = "finally"]
       \/ /\ UNCHANGED bookings
          /\ tx' = [tx EXCEPT !.state = "except", !.exc = TRUE]

\* An except clause that commits what the transaction wrote before it re-raises.
drv_rollback_commits ==
    /\ tx.state = "except"
    /\ UNCHANGED << users, tables, bookings_columns, bookings_id_seq, now, pc, req >>
    /\ UNCHANGED << entity_vars, conns, last >>
    /\ bookings' = tx.pending
    /\ tx' = [tx EXCEPT !.state = "finally"]

\* except Exception: conn.rollback(); raise -- what the transaction wrote is
\* discarded and the exception goes on.
drv_rollback ==
    /\ tx.state = "except"
    /\ UNCHANGED << users, tables, bookings, bookings_columns, bookings_id_seq, now, pc, req >>
    /\ UNCHANGED << entity_vars, conns, last >>
    /\ tx' = [tx EXCEPT !.state = "finally", !.pending = bookings]

\* What follows the finally clause: the exception reaches the caller; or the
\* connect() block of create_booking is left and the function raises ValueError
\* or goes on to its transaction(); or the function returns.
drv_leave ==
    IF tx.exc
      THEN tx' = NoTx /\ last' = DrvCall(tx, "StorageError", 0)
    ELSE IF tx.kind = "connect"
      THEN IF tx.ret = 1
             THEN tx' = [tx EXCEPT !.state = "opening", !.conn = 0] /\ UNCHANGED last
             ELSE tx' = NoTx /\ last' = DrvCall(tx, "ValueError", 0)
      ELSE tx' = NoTx /\ last' = DrvCall(tx, "ok", tx.ret)

\* A block that closes its connection at the end of the try body only, not in
\* a finally clause.
drv_close_unless_exception ==
    /\ tx.state = "finally"
    /\ UNCHANGED << users, tables, bookings, bookings_columns, bookings_id_seq, now, pc, req >>
    /\ UNCHANGED entity_vars
    /\ conns' = IF tx.exc THEN conns ELSE conns \ {tx.conn}
    /\ drv_leave

\* finally: conn.close()
drv_close ==
    /\ tx.state = "finally"
    /\ UNCHANGED << users, tables, bookings, bookings_columns, bookings_id_seq, now, pc, req >>
    /\ UNCHANGED entity_vars
    /\ conns' = conns \ {tx.conn}
    /\ drv_leave

NextDriver ==
    \/ \E b \in StoreRequests : drv_begin("create_booking", DrvArgs(b, 0, b.status, NULL))
    \/ \E id \in BookingIds, st \in Statuses :
           drv_begin("set_booking_status", DrvArgs(NoRequest, id, st, NULL))
    \/ \E id \in BookingIds, rs \in Reasons :
           drv_begin("cancel_booking", DrvArgs(NoRequest, id, NULL, rs))
    \/ drv_begin_transaction
    \/ drv_query
    \/ drv_statement
    \/ drv_commit
    \/ drv_rollback
    \/ drv_close

SpecDriver == Init /\ [][NextDriver]_vars

\* ---------------------------------------------------------------- without set_booking_status
\* The backend called one call at a time through create_booking with a status
\* given, update_booking_times and cancel_booking only.
RequestsWithStatus == {b \in Requests : b.status # NULL}

NextNoSetStatus ==
    \/ \E b \in RequestsWithStatus : create_booking(b)
    \/ \E id \in BookingIds, s \in Times, e \in Times, g \in NewGuestCounts :
           update_booking_times(id, s, e, g)
    \/ \E id \in BookingIds, rs \in Reasons : cancel_booking(id, rs)

SpecNoSetStatus == Init /\ [][NextNoSetStatus]_vars

\* ================================================================ properties
\* The overlap rule of the design: [s1,e1) and [s2,e2) overlap iff
\* NOT (e1 <= s2 OR s1 >= e2).
Overlaps(s1, e1, s2, e2) == ~ (e1 <= s2 \/ s1 >= e2)

\* A booking with a status other than canceled (a row whose status is NULL has
\* no status: it is the subject of a property of its own).
IsActive(r) == r.status # NULL /\ r.status # Some("canceled")

\* The step taken is a call of the backend function op.
Called(op) == last'.op = op

\* ---------------------------------------------------------------- C1
\* C1: in every state reached by create_booking, update_booking_times,
\* set_booking_status and cancel_booking calls made one at a time, no two
\* stored bookings of the same table whose status is not canceled have
\* overlapping [starts_at, ends_at) windows.
C1_NoOverlappingActiveBookings ==
    \A r1 \in bookings, r2 \in bookings :
        (r1.id # r2.id /\ r1.table_id = r2.table_id /\ IsActive(r1) /\ IsActive(r2))
            => ~ Overlaps(r1.starts_at, r1.ends_at, r2.starts_at, r2.ends_at)

\* ---------------------------------------------------------------- C3
\* C3: is_table_available returns true exactly when no stored booking with the
\* given table id, a status other than canceled and an id different from the
\* excluded one satisfies NOT (ends_at <= start OR starts_at >= end).
C3_AvailableIffNoConflictingRow ==
    last.op = "is_table_available" =>
        last.ret = ~ \E r \in bookings :
                        /\ r.table_id = last.table_id
                        /\ IsActive(r)
                        /\ (last.booking_id = NULL \/ r.id # last.booking_id[1])
                        /\ ~ (r.ends_at <= last.starts_at \/ r.starts_at >= last.ends_at)

\* is_table_available answered false although the excluded booking was given,
\* because another active booking of the table overlaps the window.
C3_Witness ==
    /\ last.op = "is_table_available"
    /\ last.ret = FALSE
    /\ last.booking_id # NULL
    /\ \E r \in bookings :
           /\ r.id = last.booking_id[1] /\ r.table_id = last.table_id /\ IsActive(r)
           /\ Overlaps(r.starts_at, r.ends_at, last.starts_at, last.ends_at)
    /\ \E r \in bookings : r.id # last.booking_id[1]

\* ---------------------------------------------------------------- C6
\* C6 as stated: for any two windows with the same start on the same table,
\* whatever their ends, is_table_available returns false for the second when
\* the first is stored as an active booking.
C6_SameStartUnavailable ==
    last.op = "is_table_available" =>
        \A r \in bookings :
            (/\ IsActive(r)
             /\ r.table_id = last.table_id
             /\ r.starts_at = last.starts_at
             /\ (last.booking_id = NULL \/ r.id # last.booking_id[1]))
                => last.ret = FALSE

\* C6 as amended: for any two windows with the same start on the same table,
\* each ending after that start, is_table_available returns false for the
\* second when the first is stored as an active booking.
C6_SameStartUnavailableProperWindows ==
    last.op = "is_table_available" =>
        \A r \in bookings :
            (/\ IsActive(r)
             /\ r.table_id = last.table_id
             /\ r.starts_at = last.starts_at
             /\ r.starts_at < r.ends_at
             /\ last.starts_at < last.ends_at
             /\ (last.booking_id = NULL \/ r.id # last.booking_id[1]))
                => last.ret = FALSE

\* The query was made for a window with the start of a stored active booking
\* and a different end, and was answered false.
C6_Witness ==
    /\ last.op = "is_table_available"
    /\ last.ret = FALSE
    /\ Cardinality(bookings) = 1
    /\ \E r \in bookings :
           /\ IsActive(r) /\ r.table_id = last.table_id
           /\ r.starts_at = last.starts_at /\ r.starts_at < r.ends_at
           /\ last.starts_at < last.ends_at /\ last.ends_at # r.ends_at

\* ---------------------------------------------------------------- C10
\* C10: canceled is terminal: once a booking's status is canceled, no later
\* create_booking, update_booking_times, set_booking_status or cancel_booking
\* call makes its status anything other than canceled.
C10_CanceledIsTerminal ==
    [][ \A r \in bookings :
            r.status = Some("canceled")
                => \A r2 \in bookings' : r2.id = r.id => r2.status = Some("canceled") ]_vars

\* ---------------------------------------------------------------- C4
\* The row a successful create_booking call reports is new and is the only change.
InsertedByCall ==
    \E r \in bookings' :
        /\ r \notin bookings
        /\ bookings' = bookings \cup {r}
        /\ \A q \in bookings : q.id # r.id
        /\ r.id = last'.ret
        /\ r.table_id = last'.table_id
        /\ r.starts_at = last'.starts_at
        /\ r.ends_at = last'.ends_at

\* C4 as stated: create_booking for a window is_table_available reports as
\* unavailable raises ValueError, inserts no row and leaves every stored booking
\* unchanged; when the window is available it persists exactly one new row and
\* returns its identifier.
C4_CreateRaisesOrInserts ==
    [][ Called("create_booking") =>
          IF ~ is_table_available(bookings, last'.table_id, last'.starts_at,
                                  last'.ends_at, NULL)
            THEN last'.outcome = "ValueError" /\ bookings' = bookings
            ELSE last'.outcome = "ok" /\ InsertedByCall ]_vars

\* C4 as amended: create_booking for a window is_table_available reports as
\* unavailable raises ValueError, inserts no row and leaves every stored booking
\* unchanged; when the window is available and the booking's user and table are
\* stored rows, it persists exactly one new row and returns its identifier.
C4_CreateRaisesOrInsertsForStoredRefs ==
    [][ Called("create_booking") =>
          IF ~ is_table_available(bookings, last'.table_id, last'.starts_at,
                                  last'.ends_at, NULL)
            THEN last'.outcome = "ValueError" /\ bookings' = bookings
            ELSE (last'.user_id \in users /\ last'.table_id \in tables)
                    => (last'.outcome = "ok" /\ InsertedByCall) ]_vars

\* A create_booking call was rejected as a conflict after another one had
\* stored the booking it conflicts with.
C4_Witness ==
    /\ last.op = "create_booking"
    /\ last.outcome = "ValueError"
    /\ Cardinality(bookings) = 1
    /\ \E r \in bookings : r.table_id = last.table_id /\ IsActive(r)

\* ---------------------------------------------------------------- C5
\* r is the only active booking of table t, and its window is [s, e) with s < e.
OnlyActiveBookingOf(t, r) ==
    /\ r.table_id = t
    /\ IsActive(r)
    /\ r.starts_at < r.ends_at
    /\ \A q \in bookings : (q.table_id = t /\ IsActive(q)) => q = r

\* C5 as stated: when the only active booking on a table is [s, e),
\* create_booking for a window on that table that starts exactly at e succeeds,
\* while create_booking for a window that starts strictly inside [s, e) raises
\* Conflict.
C5_TouchingAcceptedInsideRejected ==
    [][ Called("create_booking") =>
          \A r \in bookings :
              OnlyActiveBookingOf(last'.table_id, r) =>
                  /\ (last'.starts_at = r.ends_at
                         => last'.outcome = "ok" /\ InsertedByCall)
                  /\ ((r.starts_at < last'.starts_at /\ last'.starts_at < r.ends_at)
                         => last'.outcome = "ValueError" /\ bookings' = bookings) ]_vars

\* C5 as amended: when the only active booking on a table is [s, e),
\* create_booking by a stored user for a window on that table that starts exactly
\* at e succeeds, while create_booking for a window that starts strictly inside
\* [s, e) and ends after s raises Conflict.
C5_TouchingAcceptedOverlapRejected ==
    [][ Called("create_booking") =>
          \A r \in bookings :
              OnlyActiveBookingOf(last'.table_id, r) =>
                  /\ ((last'.starts_at = r.ends_at /\ last'.user_id \in users)
                         => last'.outcome = "ok" /\ InsertedByCall)
                  /\ ((/\ r.starts_at < last'.starts_at
                       /\ last'.starts_at < r.ends_at
                       /\ r.starts_at < last'.ends_at)
                         => last'.outcome = "ValueError" /\ bookings' = bookings) ]_vars

\* Scenario A's last step: a booking starting exactly where the only other
\* active booking of the table ends was accepted.
C5_Witness ==
    /\ last.op = "create_booking"
    /\ last.outcome = "ok"
    /\ last.starts_at < last.ends_at
    /\ \E r \in bookings :
           /\ r.id # last.ret /\ r.table_id = last.table_id /\ IsActive(r)
           /\ r.starts_at < r.ends_at /\ r.ends_at = last.starts_at
    /\ \E r \in bookings : r.id = last.ret /\ IsActive(r)

\* ---------------------------------------------------------------- C7
\* The booking was canceled with cancel_booking and is still canceled.
CanceledByCancelBooking(r) == r.status = Some("canceled") /\ r.canceled_at # NULL

\* C7: a booking canceled with cancel_booking never blocks availability:
\* is_table_available answers, for every table, window and exclusion, as if the
\* canceled booking were not stored, and create_booking is rejected as a conflict
\* exactly when a booking other than the canceled ones is active on the table and
\* overlaps the window; so re-booking the canceled booking's exact window for a
\* stored user succeeds when no other active booking conflicts.
C7_CanceledNeverBlocks ==
    [][ /\ \A a \in bookings' :
               CanceledByCancelBooking(a) =>
                   \A t \in TableIds, s \in Times, e \in Times,
                      x \in {NULL} \cup {Some(r.id) : r \in bookings'} :
                       is_table_available(bookings', t, s, e, x)
                           = is_table_available(bookings' \ {a}, t, s, e, x)
        /\ Called("create_booking") =>
               LET blocked ==
                       \E r \in bookings :
                           /\ ~ CanceledByCancelBooking(r)
                           /\ r.table_id = last'.table_id
                           /\ IsActive(r)
                           /\ Overlaps(r.starts_at, r.ends_at, last'.starts_at, last'.ends_at)
               IN  /\ (last'.outcome = "ValueError") = blocked
                   /\ (~ blocked /\ last'.user_id \in users /\ last'.table_id \in tables)
                          => (last'.outcome = "ok" /\ InsertedByCall) ]_vars

\* Scenario B: booking A was canceled with cancel_booking and a new booking for
\* A's table and exact window was then accepted.
C7_Witness ==
    /\ last.op = "create_booking"
    /\ last.outcome = "ok"
    /\ \E a \in bookings :
           /\ CanceledByCancelBooking(a)
           /\ a.id # last.ret
           /\ a.table_id = last.table_id
           /\ a.starts_at = last.starts_at /\ a.ends_at = last.ends_at
           /\ a.starts_at < a.ends_at

\* ---------------------------------------------------------------- C8
\* C8: update_booking_times on an existing active booking succeeds (returns 1,
\* no Conflict) whenever the new window overlaps no other active booking of the
\* same table, including when it is unchanged from or overlaps the booking's own
\* current window.
C8_UpdateIgnoresOwnWindow ==
    [][ Called("update_booking_times") =>
          \A r \in bookings :
              (/\ r.id = last'.booking_id
               /\ r.status # Some("canceled")
               /\ ~ \E q \in bookings :
                        /\ q.id # r.id
                        /\ q.table_id = r.table_id
                        /\ IsActive(q)
                        /\ Overlaps(q.starts_at, q.ends_at, last'.starts_at, last'.ends_at))
                  => /\ last'.outcome = "ok"
                     /\ last'.ret = 1
                     /\ \E r2 \in bookings' :
                            /\ r2.id = r.id
                            /\ r2.starts_at = last'.starts_at
                            /\ r2.ends_at = last'.ends_at ]_vars

\* An active booking was moved to a window that overlaps the window it had,
\* while another active booking of the same table was stored.
C8_Witness ==
    /\ last.op = "update_booking_times"
    /\ last.outcome = "ok"
    /\ last.ret = 1
    /\ \E r0 \in last.before :
           /\ IsActive(r0)
           /\ r0.starts_at < r0.ends_at
           /\ Overlaps(r0.starts_at, r0.ends_at, last.starts_at, last.ends_at)
           /\ \E q \in bookings :
                  q.id # r0.id /\ q.table_id = r0.table_id /\ IsActive(q)
                  /\ q.starts_at < q.ends_at

\* ---------------------------------------------------------------- C9
\* C9: calling cancel_booking twice on the same existing booking leaves its
\* status canceled after each call; the second call raises no error, returns the
\* same affected count as the first (one row), and changes nothing other than the
\* cancellation reason and the cancellation and update timestamps.
C9_CancelTwice ==
    [][ Called("cancel_booking") =>
          \A r \in bookings :
              r.id = last'.booking_id =>
                  /\ last'.outcome = "ok"
                  /\ last'.ret = 1
                  /\ \E r2 \in bookings' :
                         /\ r2.id = r.id
                         /\ r2.status = Some("canceled")
                         /\ bookings' \ {r2} = bookings \ {r}
                         /\ CanceledByCancelBooking(r) =>
                                r2 = [r EXCEPT !.cancel_reason = r2.cancel_reason,
                                               !.canceled_at = r2.canceled_at,
                                               !.updated_at = r2.updated_at] ]_vars

\* ---------------------------------------------------------------- C2
\* Two active bookings of one table with overlapping windows are stored.
DoubleBooked(bks) ==
    \E r1 \in bks, r2 \in bks :
        /\ r1.id # r2.id /\ r1.table_id = r2.table_id
        /\ IsActive(r1) /\ IsActive(r2)
        /\ Overlaps(r1.starts_at, r1.ends_at, r2.starts_at, r2.ends_at)

\* C2: between a caller's availability check and its write there is no lock and
\* no second check: a caller that has passed is_table_available writes its
\* booking even when an overlapping active booking of the same table was
\* committed in between, and the state reached then holds two overlapping
\* non-canceled bookings on that table (for create_booking and for
\* update_booking_times alike).
C2_WriteAfterStaleCheckDoubleBooks ==
    [][ \A p \in Procs :
          /\ (/\ pc[p] = "create_write" /\ pc'[p] = "idle"
              /\ ForeignKeysHold(req[p])
              /\ \E r \in bookings :
                     /\ r.table_id = req[p].table_id /\ IsActive(r)
                     /\ Overlaps(r.starts_at, r.ends_at, req[p].starts_at, req[p].ends_at))
                 => /\ last'.outcome = "ok"
                    /\ DoubleBooked(bookings')
          /\ (/\ pc[p] = "update_write" /\ pc'[p] = "idle"
              /\ \E r \in bookings : r.id = req[p].booking_id /\ IsActive(r)
              /\ \E r \in bookings :
                     /\ r.id # req[p].booking_id
                     /\ r.table_id = req[p].table_id /\ IsActive(r)
                     /\ Overlaps(r.starts_at, r.ends_at, req[p].starts_at, req[p].ends_at))
                 => /\ last'.outcome = "ok"
                    /\ DoubleBooked(bookings') ]_vars

\* Both callers are done and the table is double-booked: every booking here was
\* stored as an active one with a well-formed window, so this state is reached
\* only by a write that followed a check made before the other caller's write.
C2_Witness ==
    /\ \A p \in Procs : pc[p] = "idle"
    /\ DoubleBooked(bookings)
    /\ last.outcome = "ok"

\* ---------------------------------------------------------------- C11
\* Another active booking of the table of booking r overlaps the window [s, e).
OtherActiveOverlaps(r, s, e) ==
    \E q \in bookings :
        /\ q.id # r.id
        /\ q.table_id = r.table_id
        /\ IsActive(q)
        /\ Overlaps(q.starts_at, q.ends_at, s, e)

\* C11: update_booking_times on an existing booking whose new window conflicts
\* with another active booking of the same table raises ValueError and leaves
\* the booking's stored starts_at, ends_at, guest_count and updated_at, and
\* every other row, unchanged.
C11_ConflictingUpdateRejected ==
    [][ Called("update_booking_times") =>
          \A r \in bookings :
              (r.id = last'.booking_id
                 /\ OtherActiveOverlaps(r, last'.starts_at, last'.ends_at))
                  => /\ last'.outcome = "ValueError"
                     /\ bookings' = bookings ]_vars

\* An update was rejected although the new window does not overlap the window
\* the booking had: the conflict is with the other booking alone.
C11_Witness ==
    /\ last.op = "update_booking_times"
    /\ last.outcome = "ValueError"
    /\ \E r \in bookings :
           /\ r \in last.before
           /\ IsActive(r)
           /\ ~ Overlaps(r.starts_at, r.ends_at, last.starts_at, last.ends_at)
           /\ OtherActiveOverlaps(r, last.starts_at, last.ends_at)

\* ---------------------------------------------------------------- C12
\* C12: update_booking_times called with an id that matches no stored booking
\* returns 0 and raises no error, whatever is booked in the window it was given
\* (no availability check decides the call), and leaves the set of stored rows
\* unchanged.
C12_UpdateOfMissingBookingReturnsZero ==
    [][ (Called("update_booking_times")
           /\ get_booking(bookings, last'.booking_id) = {})
          => /\ last'.outcome = "ok"
             /\ last'.ret = 0
             /\ bookings' = bookings
             /\ now' = now ]_vars

\* The call was made for a missing id and a window in which every table that
\* has bookings is taken by an active booking, and it returned 0.
C12_Witness ==
    /\ last.op = "update_booking_times"
    /\ last.outcome = "ok"
    /\ last.ret = 0
    /\ last.before = {}
    /\ bookings # {}
    /\ \A r \in bookings :
           /\ r.id # last.booking_id
           /\ IsActive(r)
           /\ Overlaps(r.starts_at, r.ends_at, last.starts_at, last.ends_at)

\* ---------------------------------------------------------------- C13
\* C13: set_booking_status on an existing booking overwrites the status with
\* the given value unconditionally, for every current status and every new
\* value (canceled to a non-canceled value included), makes no availability
\* check (it succeeds when the booking's window is taken by another active
\* booking too), touches nothing but the status and the update timestamp of
\* that row, and returns 1.
C13_SetStatusOverwrites ==
    [][ Called("set_booking_status") =>
          \A r \in bookings :
              r.id = last'.booking_id =>
                  /\ last'.outcome = "ok"
                  /\ last'.ret = 1
                  /\ \E r2 \in bookings' :
                         /\ r2 = [r EXCEPT !.status = last'.status,
                                           !.updated_at = r2.updated_at]
                         /\ bookings' \ {r2} = bookings \ {r} ]_vars

\* A canceled booking was made active again while another active booking of
\* its table holds an overlapping window.
C13_Witness ==
    /\ last.op = "set_booking_status"
    /\ last.outcome = "ok"
    /\ last.ret = 1
    /\ \E r0 \in last.before : r0.status = Some("canceled")
    /\ \E r \in bookings :
           /\ r.id = last.booking_id
           /\ IsActive(r)
           /\ OtherActiveOverlaps(r, r.starts_at, r.ends_at)

\* ---------------------------------------------------------------- C14
\* The call returned 0 without raising and left every stored row as it was.
ReturnedZeroAndChangedNothing ==
    /\ last'.outcome = "ok"
    /\ last'.ret = 0
    /\ UNCHANGED << users, users_email, tables, tables_number, bookings >>

\* C14: update_user, delete_user, update_table_rec, delete_table,
\* update_booking_times, set_booking_status and cancel_booking called with an id
\* that matches no stored row return 0 without raising and leave the store
\* unchanged.
C14_MissingIdReturnsZero ==
    [][ /\ ((Called("update_user") \/ Called("delete_user")) /\ last'.user_id \notin users)
            => ReturnedZeroAndChangedNothing
        /\ ((Called("update_table_rec") \/ Called("delete_table"))
              /\ last'.table_id \notin tables)
            => ReturnedZeroAndChangedNothing
        /\ ((Called("update_booking_times") \/ Called("set_booking_status")
               \/ Called("cancel_booking"))
              /\ get_booking(bookings, last'.booking_id) = {})
            => ReturnedZeroAndChangedNothing ]_vars

\* ---------------------------------------------------------------- C17
\* C17: delete_table on a table referenced by at least one active booking fails
\* with a storage error, and the table and its bookings remain stored; in every
\* reachable state each active booking's table_id refers to a stored table.
C17_ReferencedTableNotDeleted ==
    [][ /\ (Called("delete_table")
              /\ \E r \in bookings : IsActive(r) /\ r.table_id = last'.table_id)
            => /\ last'.outcome = "StorageError"
               /\ UNCHANGED << tables, tables_number, bookings >>
        /\ \A r \in bookings' : IsActive(r) => r.table_id \in tables' ]_vars

\* delete_table was refused for a stored table that an active booking references.
C17_Witness ==
    /\ last.op = "delete_table"
    /\ last.outcome = "StorageError"
    /\ last.table_id \in tables
    /\ \E r \in bookings : IsActive(r) /\ r.table_id = last.table_id

\* ---------------------------------------------------------------- C18
\* C18: delete_user on an existing user removes the user and every booking whose
\* user_id is that user, whatever the bookings' status, and leaves all other
\* users, tables and bookings unchanged; the window of each removed booking is
\* available again unless a remaining active booking of its table overlaps it.
C18_DeleteUserCascades ==
    [][ (Called("delete_user") /\ last'.user_id \in users) =>
          LET id == last'.user_id
              removed == {r \in bookings : r.user_id = id}
          IN  /\ last'.outcome = "ok"
              /\ last'.ret = 1
              /\ users' = users \ {id}
              /\ \A u \in users' : users_email'[u] = users_email[u]
              /\ UNCHANGED << tables, tables_number >>
              /\ bookings' = bookings \ removed
              /\ \A r \in removed :
                     is_table_available(bookings', r.table_id, r.starts_at, r.ends_at, NULL)
                         = ~ \E q \in bookings \ removed :
                                 /\ q.table_id = r.table_id
                                 /\ IsActive(q)
                                 /\ Overlaps(q.starts_at, q.ends_at, r.starts_at, r.ends_at)
        ]_vars

\* A user with an active booking was deleted: the booking is gone, its window is
\* available, and the booking of another user is still stored.
C18_Witness ==
    /\ last.op = "delete_user"
    /\ last.ret = 1
    /\ last.user_id \notin users
    /\ \E r \in last.before :
           /\ IsActive(r)
           /\ r \notin bookings
           /\ is_table_available(bookings, r.table_id, r.starts_at, r.ends_at, NULL)
    /\ \E q \in bookings : q.user_id \in users

\* ---------------------------------------------------------------- C20
\* C20: in every state reachable by create_user and update_user calls, no two
\* stored users have the same email.
C20_UniqueEmails ==
    \A u1 \in users, u2 \in users : u1 # u2 => users_email[u1] # users_email[u2]

\* ---------------------------------------------------------------- C19
\* C19: after create_tables provisions an empty database from the models, every
\* column a backend statement reads or writes exists in the provisioned table
\* (the bookings table has canceled_at and cancel_reason in particular), so
\* cancel_booking on an existing booking succeeds.
C19_ProvisionedColumnsSuffice ==
    [][ /\ (Called("create_tables") /\ bookings_columns = NoTable) =>
               /\ \A op \in UserStatements : StatementColumns(op) \subseteq UserModelColumns
               /\ \A op \in TableStatements : StatementColumns(op) \subseteq TableModelColumns
               /\ \A op \in BookingStatements : StatementColumns(op) \subseteq bookings_columns'
        /\ (Called("cancel_booking") /\ get_booking(bookings, last'.booking_id) # {})
               => /\ last'.outcome = "ok"
                  /\ last'.ret = 1 ]_vars

\* ---------------------------------------------------------------- C15
\* C15: every mutating operation runs in one transaction that commits only if
\* its body finishes without exception and rolls back otherwise: the committed
\* rows change in no step but a commit that follows a body which raised nothing,
\* and when the operation fails at the storage layer (a foreign-key violation, a
\* failed statement, a failed commit) the error reaches the caller and the
\* stored rows equal the rows before the call.
C15_CommitOrRollBack ==
    [][ /\ bookings' # bookings =>
               /\ tx.state = "commit" /\ tx.kind = "transaction" /\ ~ tx.exc
               /\ tx'.state = "finally" /\ ~ tx'.exc
               /\ bookings' = tx.pending
        /\ (tx.state # "idle" /\ tx'.state = "idle") =>
               /\ tx.exc => last'.outcome = "StorageError"
               /\ last'.outcome # "ok" => bookings' = tx.before
               /\ last'.outcome = "ok" => (~ tx.exc /\ bookings' = tx.pending) ]_vars

\* create_booking failed at the storage layer after its INSERT had run (the
\* sequence value is spent), a booking stored before is still the only row.
C15_Witness ==
    /\ tx.state = "idle"
    /\ last.op = "create_booking"
    /\ last.outcome = "StorageError"
    /\ Cardinality(bookings) = 1
    /\ bookings_id_seq = 3

\* ---------------------------------------------------------------- C16
\* C16: every connection a backend operation opens is a fresh one and is closed
\* before the operation returns or raises, on every exit path of connect and
\* transaction: no connection is open between operations or between the blocks
\* of one operation, and never more than the one of the block being executed.
C16_ConnectionsClosed ==
    /\ tx.state \in {"idle", "opening"} => conns = {}
    /\ tx.state \notin {"idle", "opening"} => conns = {tx.conn}

\* An operation ended with an exception raised inside its transaction block
\* (the INSERT had run) and no connection is open.
C16_Witness ==
    /\ tx.state = "idle"
    /\ conns = {}
    /\ last.outcome = "StorageError"
    /\ last.op = "create_booking"
    /\ bookings_id_seq > Cardinality(bookings) + 1

\* ---------------------------------------------------------------- C21
\* C21: cancel_booking on an existing booking sets status to canceled, sets
\* canceled_at, stores the given reason (null when omitted) and bumps
\* updated_at, leaves the booking's other columns and every other row unchanged,
\* and returns 1.
C21_CancelWritesOnlyCancellation ==
    [][ Called("cancel_booking") =>
          \A r \in bookings :
              r.id = last'.booking_id =>
                  /\ last'.outcome = "ok"
                  /\ last'.ret = 1
                  /\ bookings' =
                         (bookings \ {r})
                             \cup {[r EXCEPT !.status = Some("canceled"),
                                             !.canceled_at = Some(now),
                                             !.cancel_reason = last'.reason,
                                             !.updated_at = now]}
                  /\ r.updated_at < now ]_vars

\* ---------------------------------------------------------------- C22
\* C22: a successful update_booking_times changes only the target booking's
\* starts_at, ends_at, guest_count and updated_at (its table_id, user_id,
\* status, canceled_at and cancel_reason, and every other booking, are
\* unchanged), and the availability check is made against the booking's stored
\* table_id: the new window is free on that table once the booking itself is
\* left out.
C22_UpdateWritesOnlyTimes ==
    [][ (Called("update_booking_times") /\ last'.outcome = "ok" /\ last'.ret = 1) =>
          \E r \in bookings :
              /\ r.id = last'.booking_id
              /\ \E r2 \in bookings' :
                     /\ r2 = [r EXCEPT !.starts_at = last'.starts_at,
                                       !.ends_at = last'.ends_at,
                                       !.guest_count = r2.guest_count,
                                       !.updated_at = now]
                     /\ bookings' \ {r2} = bookings \ {r}
              /\ last'.table_id = r.table_id
              /\ is_table_available(bookings, r.table_id, last'.starts_at, last'.ends_at,
                                    Some(r.id)) ]_vars

\* A canceled booking was moved, with a new guest count, to a window that an
\* active booking of the other table holds: it is still canceled, and the
\* other booking is as it was.
C22_Witness ==
    /\ last.op = "update_booking_times"
    /\ last.outcome = "ok"
    /\ last.ret = 1
    /\ \E r0 \in last.before, r \in bookings, q \in bookings :
           /\ r.id = r0.id
           /\ r0.status = Some("canceled") /\ r.status = Some("canceled")
           /\ r.guest_count # r0.guest_count
           /\ r.starts_at # r0.starts_at
           /\ q.id # r.id /\ q.table_id # r.table_id /\ IsActive(q)
           /\ Overlaps(q.starts_at, q.ends_at, r.starts_at, r.ends_at)

\* ---------------------------------------------------------------- C23
\* The half-open intervals [s1, e1) and [s2, e2) share at least one instant
\* (with whole-numbered bounds they share one exactly when they share a
\* whole-numbered one).
SharesInstant(s1, e1, s2, e2) ==
    \E t \in Times : s1 <= t /\ t < e1 /\ s2 <= t /\ t < e2

\* The stored row r takes part in the availability query that was made: it is of
\* the table asked for, has a status other than canceled and is not excluded.
TakesPart(r) ==
    /\ r.table_id = last.table_id
    /\ IsActive(r)
    /\ (last.booking_id = NULL \/ r.id # last.booking_id[1])

\* C23 as stated: for all pairs of windows, empty and inverted ones included,
\* the conflict predicate of is_table_available holds exactly when the
\* half-open intervals share at least one instant.
C23_ConflictIffSharedInstant ==
    last.op = "is_table_available" =>
        \A r \in bookings :
            TakesPart(r) =>
                (Conflicts(r, last.table_id, last.starts_at, last.ends_at, last.booking_id)
                    <=> SharesInstant(r.starts_at, r.ends_at, last.starts_at, last.ends_at))

\* C23 as amended: for all pairs of windows that each end after they start, the
\* conflict predicate of is_table_available holds exactly when the half-open
\* intervals share at least one instant.
C23_ConflictIffSharedInstantProperWindows ==
    last.op = "is_table_available" =>
        \A r \in bookings :
            (TakesPart(r) /\ r.starts_at < r.ends_at /\ last.starts_at < last.ends_at) =>
                (Conflicts(r, last.table_id, last.starts_at, last.ends_at, last.booking_id)
                    <=> SharesInstant(r.starts_at, r.ends_at, last.starts_at, last.ends_at))

\* The query was made for a window that begins inside the window of the only
\* stored booking and shares an instant with it, and was answered false.
C23_Witness ==
    /\ last.op = "is_table_available"
    /\ last.ret = FALSE
    /\ Cardinality(bookings) = 1
    /\ \E r \in bookings :
           /\ TakesPart(r)
           /\ r.starts_at < last.starts_at /\ last.starts_at < r.ends_at
           /\ last.starts_at < last.ends_at
           /\ SharesInstant(r.starts_at, r.ends_at, last.starts_at, last.ends_at)

\* ---------------------------------------------------------------- C25
\* C25: only the exact status string 'canceled' frees a slot: a stored booking
\* whose status is any other string ('Canceled' with a capital C for one) makes
\* is_table_available return false for every window of its table that overlaps
\* it, and a booking whose status is 'canceled' makes no difference to the answer.
C25_OnlyExactCanceledFrees ==
    last.op = "is_table_available" =>
        /\ \A r \in bookings :
               (/\ r.status # NULL /\ r.status # Some("canceled")
                /\ r.table_id = last.table_id
                /\ (last.booking_id = NULL \/ r.id # last.booking_id[1])
                /\ Overlaps(r.starts_at, r.ends_at, last.starts_at, last.ends_at))
                   => last.ret = FALSE
        /\ last.ret = is_table_available({r \in bookings : r.status # Some("canceled")},
                                         last.table_id, last.starts_at, last.ends_at,
                                         last.booking_id)

\* The only stored booking has the status 'Canceled' and the query for a window
\* that overlaps it was answered false.
C25_Witness ==
    /\ last.op = "is_table_available"
    /\ last.ret = FALSE
    /\ Cardinality(bookings) = 1
    /\ \E r \in bookings :
           /\ r.status = Some("Canceled")
           /\ r.table_id = last.table_id
           /\ Overlaps(r.starts_at, r.ends_at, last.starts_at, last.ends_at)

\* ---------------------------------------------------------------- C27
\* C27: a booking whose stored status is null counts as an active booking:
\* is_table_available returns false for every window on its table that
\* overlaps it.
C27_NullStatusBlocks ==
    last.op = "is_table_available" =>
        \A r \in bookings :
            (/\ r.status = NULL
             /\ r.table_id = last.table_id
             /\ (last.booking_id = NULL \/ r.id # last.booking_id[1])
             /\ Overlaps(r.starts_at, r.ends_at, last.starts_at, last.ends_at))
                => last.ret = FALSE

\* ---------------------------------------------------------------- C24
\* C24: with calls made one at a time and restricted to create_booking with a
\* non-null status, update_booking_times and cancel_booking, every reachable
\* state has no two non-canceled bookings of the same table whose windows
\* satisfy NOT (e1 <= s2 OR s1 >= e2).
C24_NoConflictWithoutSetStatus ==
    \A r1 \in bookings, r2 \in bookings :
        (/\ r1.id # r2.id
         /\ r1.table_id = r2.table_id
         /\ r1.status # Some("canceled")
         /\ r2.status # Some("canceled"))
            => (r1.ends_at <= r2.starts_at \/ r1.starts_at >= r2.ends_at)

\* Two non-canceled bookings of one table are stored, the second one moved by
\* update_booking_times to the window that begins where the first one ends.
C24_Witness ==
    /\ last.op = "update_booking_times"
    /\ last.outcome = "ok"
    /\ last.ret = 1
    /\ \E r1 \in bookings, r2 \in bookings :
           /\ r1.id # r2.id /\ r2.id = last.booking_id
           /\ r1.table_id = r2.table_id
           /\ r1.status = Some("pending") /\ r2.status = Some("pending")
           /\ r1.starts_at < r1.ends_at /\ r1.ends_at = r2.starts_at
           /\ r2.starts_at < r2.ends_at

\* ---------------------------------------------------------------- C26
\* C26: in every state reachable by create_booking, cancel_booking and
\* set_booking_status calls, a booking has a cancellation timestamp or a reason
\* only if its status is canceled, and every booking whose status is canceled
\* has a cancellation timestamp.
C26_CanceledIffCancellationTimestamp ==
    \A r \in bookings :
        /\ (r.canceled_at # NULL \/ r.cancel_reason # NULL) => r.status = Some("canceled")
        /\ r.status = Some("canceled") => r.canceled_at # NULL

====
